---- MODULE Spec2Model ----
(***************************************************************************)
(* A model of scheme.js, a small Scheme interpreter: the tokenizer, the    *)
(* reader, the environment chain and the evaluator.                        *)
(*                                                                         *)
(* JavaScript values are tagged pairs <<tag, payload>>.  A JavaScript      *)
(* string is a sequence of one-character strings, so that indexing,        *)
(* slicing and concatenation are what the code does.  An Env object is a   *)
(* function from its own property names to values; the heap `store` is the *)
(* sequence of the Env objects allocated so far and an Env value refers to *)
(* one by its index.                                                       *)
(***************************************************************************)
EXTENDS Integers, Sequences, FiniteSets, TLC

(* ------------------------------ names --------------------------------- *)
n_x == <<"x">>
n_y == <<"y">>
n_a == <<"a">>
n_b == <<"b">>
n_parent == <<"_", "p", "a", "r", "e", "n", "t">>
n_find == <<"f", "i", "n", "d">>
n_insert == <<"i", "n", "s", "e", "r", "t">>
n_quote == <<"q", "u", "o", "t", "e">>
n_if == <<"i", "f">>
n_cond == <<"c", "o", "n", "d">>
n_else == <<"e", "l", "s", "e">>
n_set == <<"s", "e", "t", "!">>
n_define == <<"d", "e", "f", "i", "n", "e">>
n_lambda == <<"l", "a", "m", "b", "d", "a">>
n_begin == <<"b", "e", "g", "i", "n">>
n_let == <<"l", "e", "t">>
n_plus == <<"+">>
n_not == <<"n", "o", "t">>

(* ------------------------------ values -------------------------------- *)
Undefined == <<"undefined", 0>>
NaN == <<"nan", 0>>
Num(n) == <<"num", n>>
Bool(b) == <<"bool", b>>
Sym(s) == <<"sym", s>>
List(s) == <<"list", s>>
StringLiteral(strvalue) == <<"str", strvalue>>
Native(name) == <<"native", name>>
Method(name) == <<"method", name>>
EnvRef(i) == <<"env", i>>
Closure(variables, expression, env) == <<"closure", <<variables, expression, env>> >>

Tag(v) == v[1]
IsFunction(v) == Tag(v) \in {"closure", "native", "method"}

\* ToBoolean: what `if (v)` tests.
Truthy(v) ==
  CASE Tag(v) = "undefined" -> FALSE
    [] Tag(v) = "nan" -> FALSE
    [] Tag(v) = "num" -> v[2] # 0
    [] Tag(v) = "bool" -> v[2]
    [] Tag(v) = "sym" -> v[2] # <<>>
    [] OTHER -> TRUE

\* `v == undefined`: true of undefined (and of null, which no value here is).
IsUndef(v) == Tag(v) = "undefined"

Digit(d) == <<"0", "1", "2", "3", "4", "5", "6", "7", "8", "9">>[d + 1]

RECURSIVE NatString(_)
NatString(n) == IF n < 10 THEN <<Digit(n)>> ELSE NatString(n \div 10) \o <<Digit(n % 10)>>

\* ''+n for an integer.
NumString(n) == IF n < 0 THEN <<"-">> \o NatString(-n) ELSE NatString(n)

RECURSIVE JoinWith(_, _)
JoinWith(strs, sep) ==
  IF strs = <<>> THEN <<>>
  ELSE IF Len(strs) = 1 THEN strs[1]
  ELSE strs[1] \o sep \o JoinWith(Tail(strs), sep)

ObjectString == <<"[", "o", "b", "j", "e", "c", "t", " ", "O", "b", "j", "e", "c", "t", "]">>

\* String(v): the property key a value is used as, and ''+v.  Array.prototype
\* .join renders an undefined element as the empty string.  A function's string
\* is its source text, which no name drawn here collides with.
RECURSIVE JSString(_)
JSString(v) ==
  CASE Tag(v) = "undefined" -> <<"u", "n", "d", "e", "f", "i", "n", "e", "d">>
    [] Tag(v) = "nan" -> <<"N", "a", "N">>
    [] Tag(v) = "num" -> NumString(v[2])
    [] Tag(v) = "bool" -> IF v[2] THEN <<"t", "r", "u", "e">> ELSE <<"f", "a", "l", "s", "e">>
    [] Tag(v) = "sym" -> v[2]
    [] Tag(v) = "list" ->
         JoinWith([i \in 1..Len(v[2]) |->
                     IF IsUndef(v[2][i]) THEN <<>> ELSE JSString(v[2][i])], <<",">>)
    [] Tag(v) \in {"str", "env"} -> ObjectString
    [] OTHER -> <<"f", "u", "n", "c", "t", "i", "o", "n", " ", "(", ")">>

\* v[i] with a zero-based index: an array element, a character of a string,
\* undefined otherwise.
Idx(v, i) ==
  IF Tag(v) \in {"list", "sym"} /\ i + 1 \in 1..Len(v[2])
  THEN (IF Tag(v) = "list" THEN v[2][i + 1] ELSE Sym(<<v[2][i + 1]>>))
  ELSE Undefined

\* v.length as a loop bound: `i < undefined` is false, so no length means 0.
Length(v) == IF Tag(v) \in {"list", "sym"} THEN Len(v[2]) ELSE 0

(* -------------------------------- Env --------------------------------- *)
\* obj[key] := value
Put(obj, key, value) == [k \in DOMAIN obj \cup {key} |-> IF k = key THEN value ELSE obj[k]]

\* obj[key]: an own property, else what Env.prototype holds, else undefined.
Get(obj, key) ==
  IF key \in DOMAIN obj THEN obj[key]
  ELSE IF key \in {n_find, n_insert} THEN Method(key)
  ELSE Undefined

EmptyObject == [k \in {} |-> Undefined]

RECURSIVE EnvBind(_, _, _, _)
EnvBind(this, keys, values, i) ==
  IF i < Length(keys)
  THEN EnvBind(Put(this, JSString(Idx(keys, i)), Idx(values, i)), keys, values, i + 1)
  ELSE this

\* new Env(keys, values, outerEnv)
Env(keys, values, outerEnv) ==
  LET bound == IF Truthy(keys) /\ Truthy(values)
               THEN EnvBind(EmptyObject, keys, values, 0)
               ELSE EmptyObject
  IN Put(bound, n_parent, IF Truthy(outerEnv) THEN outerEnv ELSE Undefined)

\* Env.prototype.insert
insert(this, keys) == [k \in DOMAIN this \cup DOMAIN keys |->
                         IF k \in DOMAIN keys THEN keys[k] ELSE this[k]]

\* Env.prototype.find, called on store[e].  The result is the index of the Env
\* returned, or the error thrown: walking a `_parent` that is not an Env calls
\* a property that is not a function (TypeError), and a chain that comes back
\* on itself recurses until the stack is exhausted (RangeError).
RECURSIVE findFrom(_, _, _, _)
findFrom(store, e, variable, steps) ==
  IF Truthy(Get(store[e], variable)) THEN [env |-> e, err |-> "none"]
  ELSE LET p == Get(store[e], n_parent) IN
       IF IsUndef(p) THEN [env |-> 0, err |-> "SyntaxError"]
       ELSE IF Tag(p) # "env" THEN [env |-> 0, err |-> "TypeError"]
       ELSE IF steps >= Len(store) THEN [env |-> 0, err |-> "RangeError"]
       ELSE findFrom(store, p[2], variable, steps + 1)

find(store, e, variable) == findFrom(store, e, variable, 0)

(* --------------------------- lisp_string ------------------------------ *)
\* Array.prototype.join on strings, with a one-space separator.
RECURSIVE lisp_string(_)
lisp_string(tokens) ==
  CASE Tag(tokens) = "list" ->
         <<"(">> \o JoinWith([i \in 1..Len(tokens[2]) |-> lisp_string(tokens[2][i])], <<" ">>)
                 \o <<")">>
    [] Tag(tokens) = "str" -> tokens[2]
    [] IsFunction(tokens) -> <<"#", "<", "f", "u", "n", "c", "t", "i", "o", "n", ">">>
    [] Tag(tokens) = "bool" -> IF tokens[2] THEN <<"#", "t">> ELSE <<"#", "f">>
    [] OTHER -> JSString(tokens)

(* ---------------------------- primitives ------------------------------ *)
\* ToNumber of a number or a boolean.
IsNumeric(v) == Tag(v) \in {"num", "bool"}
ToNumber(v) == IF Tag(v) = "num" THEN v[2] ELSE IF v[2] THEN 1 ELSE 0

\* a + b: string concatenation when either operand is a string or an object
\* (whose primitive is its string), numeric addition otherwise.
Plus(a, b) ==
  IF Tag(a) \notin {"num", "bool", "undefined", "nan"} \/ Tag(b) \notin {"num", "bool", "undefined", "nan"}
  THEN Sym(JSString(a) \o JSString(b))
  ELSE IF IsNumeric(a) /\ IsNumeric(b) THEN Num(ToNumber(a) + ToNumber(b))
  ELSE NaN

\* The names lisp_defaults binds to native functions.
NativeNames == {<<"+">>, <<"-">>, <<"*">>, <<"/">>, <<"=">>, <<">">>, <<"<">>,
                <<"a", "n", "d">>, <<"o", "r">>, n_not,
                <<"l", "e", "n", "g", "t", "h">>, <<"l", "i", "s", "t">>,
                <<"c", "a", "r">>, <<"c", "d", "r">>, <<"c", "o", "n", "s">>}

lisp_defaults == [k \in NativeNames |-> Native(k)]

\* The natives applied by the forms evaluated here.
ModelledNatives == {<<"+">>, <<"a", "n", "d">>, <<"o", "r">>, n_not,
                    <<"l", "i", "s", "t">>, <<"c", "a", "r">>, <<"c", "o", "n", "s">>}

Arg(args, i) == IF i \in 1..Len(args) THEN args[i] ELSE Undefined

\* proc.apply(null, args) for a native of lisp_defaults: [val, err].
ApplyNative(name, args) ==
  LET a == Arg(args, 1)
      b == Arg(args, 2)
      ok(v) == [val |-> v, err |-> "none"]
  IN CASE name = <<"+">> -> ok(Plus(a, b))
       [] name = <<"a", "n", "d">> -> ok(IF Truthy(a) THEN b ELSE a)
       [] name = <<"o", "r">> -> ok(IF Truthy(a) THEN a ELSE b)
       [] name = n_not -> ok(Bool(~Truthy(a)))
       [] name = <<"l", "i", "s", "t">> -> ok(List(args))
       [] name = <<"c", "a", "r">> ->
            IF IsUndef(a) THEN [val |-> Undefined, err |-> "TypeError"] ELSE ok(Idx(a, 0))
       [] name = <<"c", "o", "n", "s">> ->
            ok(List(IF Tag(b) = "list" THEN <<a>> \o b[2] ELSE <<a, b>>))
       [] OTHER -> [val |-> Undefined, err |-> "Unmodelled"]

(* ------------------------------ _eval --------------------------------- *)
\* Nested closure calls the host's call stack holds.
MaxDepth == 3

\* The outcome of a call of _eval: the heap it leaves, the value returned or
\* the error thrown, and `log`, the calls of _eval made, in order of entry,
\* each with the Env object as it was on entry.
R(store, val, err, log) == [store |-> store, val |-> val, err |-> err, log |-> log]

Entry(x, env, store) == << <<x, env, store[env]>> >>

\* A `define` that would write where `set!` writes: the scope find returns.
DefineScopeOwner(store, env, key) ==
  LET f == find(store, env, key) IN IF f.err = "none" THEN f.env ELSE env

\* The scope `define` writes: env[variable] = ...
DefineScope(store, env, key) == env

\* The value `cond` returns for the clause taken: retval = x[i][1].
CondResult(clause) == Idx(clause, 1)

\* missing operands of `if`
IfMissing(x) == IsUndef(Idx(x, 1)) \/ IsUndef(Idx(x, 2)) \/ IsUndef(Idx(x, 3))

\* x[i][0] == 'else': loose equality with a string compares an array by its
\* string, so ['else'] equals 'else' too.
LooseEq(v, str) == Tag(v) \in {"sym", "list"} /\ JSString(v) = str

RECURSIVE _eval(_, _, _, _)
RECURSIVE EvalEach(_, _, _, _)
RECURSIVE CondFrom(_, _, _, _, _)
RECURSIVE Apply(_, _, _, _)

\* x.map(function(e) { return _eval(e, env); }) and the loop of `begin`:
\* the elements of xs evaluated left to right, stopping at the first throw.
EvalEach(xs, env, store, depth) ==
  IF xs = <<>> THEN [store |-> store, vals |-> <<>>, err |-> "none", log |-> <<>>]
  ELSE LET r == _eval(Head(xs), env, store, depth) IN
       IF r.err # "none"
       THEN [store |-> r.store, vals |-> <<>>, err |-> r.err, log |-> r.log]
       ELSE LET rest == EvalEach(Tail(xs), env, r.store, depth) IN
            [store |-> rest.store, vals |-> <<r.val>> \o rest.vals,
             err |-> rest.err, log |-> r.log \o rest.log]

\* the loop of `cond`, from clause i (zero-based, as in the code)
CondFrom(x, i, env, store, depth) ==
  IF ~(i < Len(x[2])) THEN R(store, Undefined, "none", <<>>)
  ELSE LET clause == Idx(x, i) IN
       IF IsUndef(clause) THEN R(store, Undefined, "TypeError", <<>>)
       ELSE IF IsUndef(Idx(clause, 0)) \/ IsUndef(Idx(clause, 1))
       THEN R(store, Undefined, "SyntaxError", <<>>)
       ELSE IF LooseEq(Idx(clause, 0), n_else) /\ i # Len(x[2]) - 1
       THEN R(store, Undefined, "SyntaxError", <<>>)
       ELSE LET t == _eval(Idx(clause, 0), env, store, depth) IN
            IF t.err # "none" THEN R(t.store, Undefined, t.err, t.log)
            ELSE IF Truthy(t.val) THEN R(t.store, CondResult(clause), "none", t.log)
            ELSE LET rest == CondFrom(x, i + 1, env, t.store, depth) IN
                 R(rest.store, rest.val, rest.err, t.log \o rest.log)

\* proc.apply(null, args)
Apply(proc, args, store, depth) ==
  IF Tag(proc) = "closure" THEN
    IF depth >= MaxDepth THEN R(store, Undefined, "RangeError", <<>>)
    ELSE LET fresh == Env(proc[2][1], List(args), EnvRef(proc[2][3])) IN
         _eval(proc[2][2], Len(store) + 1, Append(store, fresh), depth + 1)
  ELSE IF Tag(proc) = "native" THEN
    LET n == ApplyNative(proc[2], args) IN R(store, n.val, n.err, <<>>)
  ELSE IF Tag(proc) = "method" THEN R(store, Undefined, "Unmodelled", <<>>)
  ELSE R(store, Undefined, "TypeError", <<>>)

_eval(x, env, store, depth) ==
  LET entry == Entry(x, env, store)
      head == Idx(x, 0)
  IN
  IF Tag(x) = "sym" THEN
    LET f == find(store, env, x[2]) IN
    IF f.err # "none" THEN R(store, Undefined, f.err, entry)
    ELSE R(store, Get(store[f.env], x[2]), "none", entry)
  ELSE IF Tag(x) # "list" THEN R(store, x, "none", entry)
  ELSE IF head = Sym(n_quote) THEN
    IF IsUndef(Idx(x, 1)) THEN R(store, Undefined, "SyntaxError", entry)
    ELSE IF Tag(Idx(x, 1)) = "list" THEN R(store, Idx(x, 1), "none", entry)
    ELSE R(store, StringLiteral(lisp_string(Idx(x, 1))), "none", entry)
  ELSE IF head = Sym(n_if) THEN
    IF IfMissing(x) THEN R(store, Undefined, "SyntaxError", entry)
    ELSE LET t == _eval(Idx(x, 1), env, store, depth) IN
         IF t.err # "none" THEN R(t.store, Undefined, t.err, entry \o t.log)
         ELSE LET r == _eval(IF Truthy(t.val) THEN Idx(x, 2) ELSE Idx(x, 3),
                             env, t.store, depth)
              IN R(r.store, r.val, r.err, entry \o t.log \o r.log)
  ELSE IF head = Sym(n_cond) THEN
    LET c == CondFrom(x, 1, env, store, depth) IN R(c.store, c.val, c.err, entry \o c.log)
  ELSE IF head = Sym(n_set) THEN
    IF IsUndef(Idx(x, 1)) \/ IsUndef(Idx(x, 2)) THEN R(store, Undefined, "SyntaxError", entry)
    ELSE LET key == JSString(Idx(x, 1))
             f == find(store, env, key)
         IN IF f.err # "none" THEN R(store, Undefined, f.err, entry)
            ELSE LET r == _eval(Idx(x, 2), env, store, depth) IN
                 IF r.err # "none" THEN R(r.store, Undefined, r.err, entry \o r.log)
                 ELSE R([r.store EXCEPT ![f.env] = Put(@, key, r.val)],
                        Undefined, "none", entry \o r.log)
  ELSE IF head = Sym(n_define) THEN
    IF IsUndef(Idx(x, 1)) \/ IsUndef(Idx(x, 2)) THEN R(store, Undefined, "SyntaxError", entry)
    ELSE LET key == JSString(Idx(x, 1))
             r == _eval(Idx(x, 2), env, store, depth)
         IN IF r.err # "none" THEN R(r.store, Undefined, r.err, entry \o r.log)
            ELSE R([r.store EXCEPT ![DefineScope(r.store, env, key)] = Put(@, key, r.val)],
                   Undefined, "none", entry \o r.log)
  ELSE IF head = Sym(n_lambda) THEN
    IF IsUndef(Idx(x, 1)) \/ IsUndef(Idx(x, 2)) THEN R(store, Undefined, "SyntaxError", entry)
    ELSE R(store, Closure(Idx(x, 1), Idx(x, 2), env), "none", entry)
  ELSE IF head = Sym(n_begin) THEN
    LET b == EvalEach(Tail(x[2]), env, store, depth) IN
    R(b.store,
      IF b.err = "none" /\ b.vals # <<>> THEN b.vals[Len(b.vals)] ELSE Undefined,
      b.err, entry \o b.log)
  ELSE
    LET es == EvalEach(x[2], env, store, depth) IN
    IF es.err # "none" THEN R(es.store, Undefined, es.err, entry \o es.log)
    ELSE LET a == Apply(IF es.vals = <<>> THEN Undefined ELSE Head(es.vals),
                        IF es.vals = <<>> THEN <<>> ELSE Tail(es.vals),
                        es.store, depth)
         IN R(a.store, a.val, a.err, entry \o es.log \o a.log)

(* ---------------------------- tokenize -------------------------------- *)
Null == <<"null", 0>>

\* \s and the line terminators `.` does not match, among the characters drawn.
Whitespace == {" ", "\n", "\t", "\r"}
LineTerminators == {"\n", "\r"}

\* .replace(/([()])/g, ' $1 ')
RECURSIVE PadParens(_)
PadParens(s) ==
  IF s = <<>> THEN <<>>
  ELSE (IF Head(s) \in {"(", ")"} THEN <<" ", Head(s), " ">> ELSE <<Head(s)>>)
       \o PadParens(Tail(s))

\* The index of the first line terminator of s at or after i, 0 when none.
RECURSIVE LineEnd(_, _)
LineEnd(s, i) ==
  IF i > Len(s) THEN 0 ELSE IF s[i] \in LineTerminators THEN i ELSE LineEnd(s, i + 1)

\* .replace(/;(.*)\n/g, ' '): a `;`, the rest of its line and the "\n" ending
\* it become one space; a `;` whose line does not end in "\n" matches nothing.
RECURSIVE StripComments(_)
StripComments(s) ==
  IF s = <<>> THEN <<>>
  ELSE IF Head(s) = ";" /\ LineEnd(s, 2) # 0 /\ s[LineEnd(s, 2)] = "\n"
       THEN <<" ">> \o StripComments(SubSeq(s, LineEnd(s, 2) + 1, Len(s)))
       ELSE <<Head(s)>> \o StripComments(Tail(s))

\* .match(/[^;]*/g)[0]
RECURSIVE UntilSemicolon(_)
UntilSemicolon(s) ==
  IF s = <<>> \/ Head(s) = ";" THEN <<>> ELSE <<Head(s)>> \o UntilSemicolon(Tail(s))

\* .match(/\S+/g) as a sequence of strings; `cur` is the run being read.
RECURSIVE NonSpaceRuns(_, _)
NonSpaceRuns(s, cur) ==
  IF s = <<>> THEN (IF cur = <<>> THEN <<>> ELSE <<Sym(cur)>>)
  ELSE IF Head(s) \in Whitespace
       THEN (IF cur = <<>> THEN <<>> ELSE <<Sym(cur)>>) \o NonSpaceRuns(Tail(s), <<>>)
       ELSE NonSpaceRuns(Tail(s), Append(cur, Head(s)))

\* String.prototype.match with a global pattern: null when nothing matches.
MatchAll(runs) == IF runs = <<>> THEN Null ELSE List(runs)

tokenize(s) == MatchAll(NonSpaceRuns(UntilSemicolon(StripComments(PadParens(s))), <<>>))

(* ------------------------------ atom ---------------------------------- *)
Digits == {"0", "1", "2", "3", "4", "5", "6", "7", "8", "9"}
DigitValue(c) == CHOOSE d \in 0..9 : Digit(d) = c

RECURSIVE DecimalValue(_)
DecimalValue(token) ==
  IF token = <<>> THEN 0
  ELSE DecimalValue(SubSeq(token, 1, Len(token) - 1)) * 10 + DigitValue(token[Len(token)])

\* !isNaN(token) for a token of the characters drawn (no sign, point, exponent
\* or radix prefix among them): the token is a run of digits, and parseInt and
\* parseFloat agree on it.
IsNumeral(token) == token # <<>> /\ \A i \in 1..Len(token) : token[i] \in Digits

\* /".*"/.test(token): two double quotes with no line terminator between.
HasQuoted(token) ==
  \E i, j \in 1..Len(token) :
    /\ i < j /\ token[i] = "\"" /\ token[j] = "\""
    /\ \A k \in (i + 1)..(j - 1) : token[k] \notin LineTerminators

atom(token) ==
  IF ~IsNumeral(token) THEN
    IF token = <<"#", "f">> \/ token = <<"#", "F">> THEN Bool(FALSE)
    ELSE IF token = <<"#", "t">> \/ token = <<"#", "T">> THEN Bool(TRUE)
    ELSE IF HasQuoted(token) THEN StringLiteral(SubSeq(token, 2, Len(token) - 1))
    ELSE Sym(token)
  ELSE Num(DecimalValue(token))

(* --------------------------- nested_repr ------------------------------ *)
\* The outcome of reading: the tree, the tokens left in the array (the code
\* shifts them off the array it was given), and the error thrown.
Read(val, rest, err) == [val |-> val, rest |-> rest, err |-> err]

\* tokens.shift(): the array without its first element.
Shift(tokens) == IF tokens = <<>> THEN <<>> ELSE Tail(tokens)

\* while (tokens[0] != ')'): an exhausted array has no tokens[0], which differs
\* from ')' as well.
AtClose(tokens) == tokens # <<>> /\ Head(tokens) = Sym(<<")">>)

\* A reader that would put each sub-form in front of those read before it.
PushFront(l, v) == <<v>> \o l

\* l.push(v)
Push(l, v) == Append(l, v)

RECURSIVE nested_repr_seq(_)
RECURSIVE ReadList(_, _)

ReadList(tokens, l) ==
  IF ~AtClose(tokens)
  THEN LET r == nested_repr_seq(tokens) IN
       IF r.err # "none" THEN r ELSE ReadList(r.rest, Push(l, r.val))
  ELSE Read(List(l), Shift(tokens), "none")

nested_repr_seq(tokens) ==
  IF Len(tokens) = 0 THEN Read(Undefined, tokens, "SyntaxError")
  ELSE LET tok == Head(tokens) IN
       IF tok = Sym(<<"(">>) THEN ReadList(Shift(tokens), <<>>)
       ELSE IF tok = Sym(<<")">>) THEN Read(Undefined, Shift(tokens), "SyntaxError")
       ELSE Read(atom(tok[2]), Shift(tokens), "none")

\* nested_repr on what tokenize returned: null has no length.
nested_repr(tokens) ==
  IF Tag(tokens) = "null" THEN Read(Undefined, <<>>, "TypeError") ELSE nested_repr_seq(tokens[2])

parse(s) == nested_repr(tokenize(s))

(* -------------------------- global_env -------------------------------- *)
\* The functions defined using the interpreter, as parse reads their text:
\*   (define else #t)
\*   (define >= (lambda (x y) (not (< x y))))
\*   (define <= (lambda (x y) (not (> x y))))
\*   (define head car)
\*   (define tail cdr)
\*   (define null? (lambda (l) (= 0 (length l))))
\*   (define map (lambda (f l) (if (null? l) l (cons (f (car l)) (map f (cdr l))))))
lisp_extra == <<
    List(<<Sym(<<"d", "e", "f", "i", "n", "e">>), Sym(<<"e", "l", "s", "e">>),
    Bool(TRUE)>>),
    List(<<Sym(<<"d", "e", "f", "i", "n", "e">>), Sym(<<">", "=">>), List(<<Sym(<<"l",
    "a", "m", "b", "d", "a">>), List(<<Sym(<<"x">>), Sym(<<"y">>)>>), List(<<Sym(<<"n",
    "o", "t">>), List(<<Sym(<<"<">>), Sym(<<"x">>), Sym(<<"y">>)>>)>>)>>)>>),
    List(<<Sym(<<"d", "e", "f", "i", "n", "e">>), Sym(<<"<", "=">>), List(<<Sym(<<"l",
    "a", "m", "b", "d", "a">>), List(<<Sym(<<"x">>), Sym(<<"y">>)>>), List(<<Sym(<<"n",
    "o", "t">>), List(<<Sym(<<">">>), Sym(<<"x">>), Sym(<<"y">>)>>)>>)>>)>>),
    List(<<Sym(<<"d", "e", "f", "i", "n", "e">>), Sym(<<"h", "e", "a", "d">>), Sym(<<"c",
    "a", "r">>)>>),
    List(<<Sym(<<"d", "e", "f", "i", "n", "e">>), Sym(<<"t", "a", "i", "l">>), Sym(<<"c",
    "d", "r">>)>>),
    List(<<Sym(<<"d", "e", "f", "i", "n", "e">>), Sym(<<"n", "u", "l", "l", "?">>),
    List(<<Sym(<<"l", "a", "m", "b", "d", "a">>), List(<<Sym(<<"l">>)>>),
    List(<<Sym(<<"=">>), Num(0), List(<<Sym(<<"l", "e", "n", "g", "t", "h">>),
    Sym(<<"l">>)>>)>>)>>)>>),
    List(<<Sym(<<"d", "e", "f", "i", "n", "e">>), Sym(<<"m", "a", "p">>),
    List(<<Sym(<<"l", "a", "m", "b", "d", "a">>), List(<<Sym(<<"f">>), Sym(<<"l">>)>>),
    List(<<Sym(<<"i", "f">>), List(<<Sym(<<"n", "u", "l", "l", "?">>), Sym(<<"l">>)>>),
    Sym(<<"l">>), List(<<Sym(<<"c", "o", "n", "s">>), List(<<Sym(<<"f">>),
    List(<<Sym(<<"c", "a", "r">>), Sym(<<"l">>)>>)>>), List(<<Sym(<<"m", "a", "p">>),
    Sym(<<"f">>), List(<<Sym(<<"c", "d", "r">>), Sym(<<"l">>)>>)>>)>>)>>)>>)>>)
  >>

\* lisp_extra.map(function(def) { _eval(parse(def), global_env); }), from def i
RECURSIVE EvalDefs(_, _)
EvalDefs(i, store) ==
  IF i > Len(lisp_extra) THEN store
  ELSE EvalDefs(i + 1, _eval(lisp_extra[i], 1, store, 0).store)

\* The heap once the script has loaded: global_env, the only Env, at index 1.
global_store ==
  EvalDefs(1, << insert(Env(Undefined, Undefined, Undefined), lisp_defaults) >>)

(* ------------------------------ forms --------------------------------- *)
Define(name, e) == List(<<Sym(n_define), Sym(name), e>>)
SetBang(name, e) == List(<<Sym(n_set), Sym(name), e>>)
Lambda(params, body) == List(<<Sym(n_lambda), List([i \in 1..Len(params) |-> Sym(params[i])]), body>>)
Call(f, args) == List(<<f>> \o args)
If(operands) == List(<<Sym(n_if)>> \o operands)
Cond(clauses) == List(<<Sym(n_cond)>> \o [i \in 1..Len(clauses) |-> List(clauses[i])])
Begin(es) == List(<<Sym(n_begin)>> \o es)
Quote(operands) == List(<<Sym(n_quote)>> \o operands)

(* ------------------------------ state --------------------------------- *)
VARIABLES
  store,     \* the heap: the Env objects that are still referenced
  hostEnvs,  \* the indices of the Env objects the host holds: global_env and
             \* those it constructed with `new Env`
  last,      \* the last call the host made, with its outcome
  text,      \* the text given to parse
  tokens,    \* the token array given to nested_repr
  reading    \* [phase, res]: how far the reading has come, and its outcome

vars == <<store, hostEnvs, last, text, tokens, reading>>

\* Env objects the heap holds at once.
MaxEnvs == 2

Max(S) == CHOOSE m \in S : \A k \in S : k <= m

RECURSIVE RefsOf(_)
RefsOf(v) ==
  CASE Tag(v) = "env" -> {v[2]}
    [] Tag(v) = "closure" -> {v[2][3]}
    [] Tag(v) = "list" -> UNION {RefsOf(v[2][i]) : i \in 1..Len(v[2])}
    [] OTHER -> {}

RECURSIVE Reach(_, _)
Reach(st, S) ==
  LET T == S \cup UNION {UNION {RefsOf(st[e][k]) : k \in DOMAIN st[e]} : e \in S} IN
  IF T = S THEN S ELSE Reach(st, T)

\* The heap once the host has reclaimed the Env objects allocated last that
\* nothing refers to any more: a call's Env lives on only when a closure
\* captured it.
Collect(st, roots) == SubSeq(st, 1, Max(Reach(st, roots)))

NoRead == [phase |-> "idle", res |-> Read(Undefined, <<>>, "none")]

\* No call is pending: the host has taken the outcome of its last call.
Idle == [op |-> "idle", x |-> Undefined, env |-> 1, pre |-> <<>>,
         raw |-> <<>>, val |-> Undefined, err |-> "none", log |-> <<>>]

Init ==
  /\ store = global_store
  /\ hostEnvs = {1}
  /\ last = Idle
  /\ text = <<>>
  /\ tokens = Null
  /\ reading = NoRead

\* new Env(keys, values, outerEnv), called by the host
HostNew(keys, values, outer) ==
  /\ last.op = "idle"
  /\ Len(store) < MaxEnvs
  /\ store' = Append(store, Env(keys, values, outer))
  /\ hostEnvs' = hostEnvs \cup {Len(store) + 1}
  /\ last' = [op |-> "new", x |-> keys, env |-> Len(store) + 1, pre |-> store,
              raw |-> store', val |-> EnvRef(Len(store) + 1), err |-> "none", log |-> <<>>]
  /\ UNCHANGED <<text, tokens, reading>>

\* env.insert(keys), called by the host
HostInsert(e, keys) ==
  /\ last.op = "idle"
  /\ store' = [store EXCEPT ![e] = insert(@, keys)]
  /\ last' = [op |-> "insert", x |-> Undefined, env |-> e, pre |-> store,
              raw |-> store', val |-> Undefined, err |-> "none", log |-> <<>>]
  /\ UNCHANGED <<hostEnvs, text, tokens, reading>>

\* _eval(x, env), called by the host
HostEval(x, e) ==
  LET r == _eval(x, e, store, 0)
      kept == Collect(r.store, hostEnvs)
  IN /\ last.op = "idle"
     /\ Len(kept) <= MaxEnvs
     /\ store' = kept
     /\ last' = [op |-> "eval", x |-> x, env |-> e, pre |-> store, raw |-> r.store,
                 val |-> r.val, err |-> r.err, log |-> r.log]
     /\ UNCHANGED <<hostEnvs, text, tokens, reading>>

\* The host takes the outcome of the call and is ready for the next one.
Return ==
  /\ last.op # "idle"
  /\ last' = Idle
  /\ UNCHANGED <<store, hostEnvs, text, tokens, reading>>

(* ------------------------------ inputs -------------------------------- *)
\* 0 is the falsy literal, 1 the truthy one.
Literals == {Num(0), Num(1)}

\* (lambda (y) x): its value depends on the scope x is resolved in.
LambdaYX == Lambda(<<n_y>>, Sym(n_x))

Rhs == Literals \cup {Bool(FALSE), LambdaYX}

\* Forms about the environment chain.
EnvPrograms ==
       {Sym(n) : n \in {n_x, n_parent, n_find}}
  \cup {Define(n_x, e) : e \in Rhs}
  \cup {Define(n_x, SetBang(n_x, Num(1)))}
  \cup {SetBang(n_x, e) : e \in Rhs}
  \cup {SetBang(n_x, Define(n_x, Num(1))), SetBang(n_y, Define(n_x, Num(1)))}
  \cup {Call(Sym(n_x), <<Num(1)>>),
        Call(Lambda(<<n_x>>, Sym(n_x)), <<Num(0)>>),
        Call(Lambda(<<n_x, n_y>>, Sym(n_y)), <<Num(1)>>),
        Call(Lambda(<<n_parent>>, Sym(n_parent)), <<Num(1)>>),
        Call(Lambda(<<n_y>>, Define(n_x, Sym(n_y))), <<Num(1)>>)}

NewArgs == {<<Undefined, Undefined>>}
           \cup {<<List(<<Sym(n_x)>>), List(<<v>>)>> : v \in Literals}

InsertArgs == {[k \in {n_x} |-> v] : v \in Literals}

Next ==
  \/ \E kv \in NewArgs, outer \in {Undefined} \cup {EnvRef(e) : e \in hostEnvs} :
       HostNew(kv[1], kv[2], outer)
  \/ \E e \in hostEnvs, keys \in InsertArgs : HostInsert(e, keys)
  \/ \E e \in hostEnvs, x \in EnvPrograms : HostEval(x, e)
  \/ Return

Spec == Init /\ [][Next]_vars

\* (let ((a 5) (b 7)) (+ a b)) and (let ((x 1)) x)
LetForms == {
  List(<<Sym(n_let),
         List(<<List(<<Sym(n_a), Num(5)>>), List(<<Sym(n_b), Num(7)>>)>>),
         List(<<Sym(n_plus), Sym(n_a), Sym(n_b)>>)>>),
  List(<<Sym(n_let), List(<<List(<<Sym(n_x), Num(1)>>)>>), Sym(n_x)>>) }

\* Operands of `if`: a truthy literal, and a form whose evaluation shows.
IfOperands == {Num(1), Define(n_x, Num(0))}
MaxIfOperands == 4
IfForms ==
  {If(ops) : ops \in UNION {[1..n -> IfOperands] : n \in 0..MaxIfOperands}}

CondTests == {Num(0), Num(1), Sym(n_else)}
CondConseqs == {Sym(n_x), List(<<Sym(n_plus), Num(1), Num(1)>>)}
MaxClauses == 3
CondForms ==
  {Cond(cs) : cs \in UNION {[1..n -> {<<t, c>> : t \in CondTests, c \in CondConseqs}]
                              : n \in 0..MaxClauses}}

\* Special forms other than those about the environment chain.
FormPrograms ==
  LetForms \cup IfForms \cup CondForms
  \cup {Define(n_x, e) : e \in Literals}
  \cup {Begin(<<Define(n_x, Num(1)), Sym(n_x)>>), Begin(<<>>),
        Quote(<<Sym(n_x)>>), Quote(<<List(<<Sym(n_x), Num(1)>>)>>), Quote(<<>>),
        Call(Sym(n_plus), <<Num(5), Num(7)>>), List(<<>>)}

NextForms ==
  \/ \E outer \in {Undefined} \cup {EnvRef(e) : e \in hostEnvs} :
       HostNew(Undefined, Undefined, outer)
  \/ \E e \in hostEnvs : HostInsert(e, lisp_defaults)
  \/ \E e \in hostEnvs, x \in FormPrograms : HostEval(x, e)
  \/ Return

SpecForms == Init /\ [][NextForms]_vars

(* --------------------------- the parent link -------------------------- *)
\* ((lambda (_parent) _parent) 1)
CallParentParam == Call(Lambda(<<n_parent>>, Sym(n_parent)), <<Num(1)>>)

\* Forms that name `_parent` as a variable or a parameter, next to one
\* ordinary variable.
ParentPrograms ==
  {Sym(n_x), Sym(n_parent), Define(n_x, Num(1)), SetBang(n_x, Num(1)),
   Define(n_parent, Num(1)), SetBang(n_parent, Num(0)),
   CallParentParam, Define(n_parent, CallParentParam),
   Call(Lambda(<<n_parent>>, SetBang(n_parent, Num(1))), <<Num(1)>>),
   Call(Lambda(<<n_y>>, Define(n_x, Sym(n_y))), <<Num(1)>>)}

ParentInsertArgs == {[k \in {n_x} |-> Num(1)], [k \in {n_parent} |-> Num(1)]}

NextParent ==
  \/ \E outer \in {Undefined} \cup {EnvRef(e) : e \in hostEnvs} :
       HostNew(Undefined, Undefined, outer)
  \/ \E e \in hostEnvs, keys \in ParentInsertArgs : HostInsert(e, keys)
  \/ \E e \in hostEnvs, x \in ParentPrograms : HostEval(x, e)
  \/ Return

SpecParent == Init /\ [][NextParent]_vars

(* ------------------------------ reading ------------------------------- *)
\* parse(text), called by the host: tokenize hands its array to nested_repr,
\* which shifts the tokens it reads off it.
HostParse ==
  /\ reading.phase = "idle"
  /\ tokens = Null
  /\ tokens' = tokenize(text)
  /\ reading' = [phase |-> "parsed", res |-> parse(text)]
  /\ UNCHANGED <<store, hostEnvs, last, text>>

\* nested_repr(tokens), called by the host on an array of its own
HostRead ==
  /\ reading.phase = "idle"
  /\ tokens # Null
  /\ reading' = [phase |-> "read", res |-> nested_repr(tokens)]
  /\ UNCHANGED <<store, hostEnvs, last, text, tokens>>

MaxTextLen == 4
MaxTokens == 6

TextChars == {"(", ")", "a", " ", ";", "\n", "\r"}
Texts == UNION {[1..n -> TextChars] : n \in 0..MaxTextLen}

TokenStrings == {Sym(<<"(">>), Sym(<<")">>), Sym(<<"a">>), Sym(<<"1">>)}
TokenArrays == {List(t) : t \in UNION {[1..n -> TokenStrings] : n \in 0..MaxTokens}}

InitParse ==
  /\ store = global_store
  /\ hostEnvs = {1}
  /\ last = Idle
  /\ reading = NoRead
  /\ \/ text \in Texts /\ tokens = Null
     \/ text = <<>> /\ tokens \in TokenArrays

NextParse ==
  \/ HostParse
  \/ HostRead

SpecParse == InitParse /\ [][NextParse]_vars

(* ------------------------------ printing ------------------------------ *)
\* lisp_string(e), called by the host, which keeps the text it returned
HostPrint(e) ==
  /\ last.op = "idle"
  /\ reading.phase = "idle"
  /\ text' = lisp_string(e)
  /\ last' = [op |-> "lisp_string", x |-> e, env |-> 1, pre |-> store,
              raw |-> store, val |-> Sym(lisp_string(e)), err |-> "none", log |-> <<>>]
  /\ UNCHANGED <<store, hostEnvs, tokens, reading>>

MaxListLen == 2

\* What atom returns: an integer, a boolean, a string literal, a symbol.
Atoms == {Num(0), Num(12), Bool(TRUE), Bool(FALSE), Sym(<<"a">>),
          StringLiteral(<<"a">>)}

FlatLists == {List(l) : l \in UNION {[1..n -> Atoms] : n \in 0..MaxListLen}}

\* Literals, lists of literals, and lists that hold such a list.
Expressions ==
  Atoms \cup FlatLists
  \cup {List(<<l>>) : l \in FlatLists}
  \cup {List(<<a, l>>) : a \in Atoms, l \in FlatLists}

NextRound ==
  \/ \E e \in Expressions : HostPrint(e)
  \/ HostParse

SpecRound == Init /\ [][NextRound]_vars

(* ----------------- properties of the environment chain ---------------- *)
Min(S) == CHOOSE m \in S : \A k \in S : m <= k

\* The scopes from e outwards along the _parent links of st, nearest first.
RECURSIVE ChainFrom(_, _, _)
ChainFrom(st, e, n) ==
  LET p == Get(st[e], n_parent) IN
  IF Tag(p) = "env" /\ n > 0 THEN <<e>> \o ChainFrom(st, p[2], n - 1) ELSE <<e>>

Chain(st, e) == ChainFrom(st, e, Len(st))

\* The nearest scope of e's chain that holds a binding of n, or 0.
Owner(st, e, n) ==
  LET c == Chain(st, e)
      I == {i \in 1..Len(c) : n \in DOMAIN st[c[i]]}
  IN IF I = {} THEN 0 ELSE c[Min(I)]

Ancestors(st, e) == {Chain(st, e)[i] : i \in 2..Len(Chain(st, e))}

LastEval(keyword) ==
  last.op = "eval" /\ Tag(last.x) = "list" /\ Idx(last.x, 0) = Sym(keyword)

\* C1: a symbol n evaluated in a scope whose chain binds n, to whatever value
\* (0 and #f included), yields the value of the nearest binding; the lookup
\* fails only when no scope of the chain binds n.
C1_SymbolYieldsNearestBinding ==
  (last.op = "eval" /\ Tag(last.x) = "sym" /\ last.x[2] # n_parent) =>
    LET n == last.x[2]
        o == Owner(last.pre, last.env, n)
    IN /\ o # 0 => last.err = "none" /\ last.val = last.pre[o][n]
       /\ last.err # "none" => o = 0

\* C2: (define NAME EXPR) evaluated in scope S leaves NAME bound in S to the
\* value of EXPR, and leaves every ancestor of S as the evaluation of EXPR
\* left it, whether or not an ancestor binds NAME.
C2_DefineBindsCurrentScopeOnly ==
  (LastEval(n_define) /\ last.err = "none") =>
    LET n == JSString(Idx(last.x, 1))
        S == last.env
        r == _eval(Idx(last.x, 2), S, last.pre, 0)
    IN /\ n \in DOMAIN last.raw[S]
       /\ last.raw[S][n] = r.val
       /\ Idx(last.x, 2) \in Literals => last.raw[S][n] = Idx(last.x, 2)
       /\ \A a \in 1..Len(last.pre) : a # S => last.raw[a] = r.store[a]
       /\ Idx(last.x, 2) \in Literals =>
            \A a \in Ancestors(last.pre, S) : last.raw[a] = last.pre[a]

\* A define in a scope that did not bind the name, one of whose ancestors
\* binds it to another value.
C2_Witness ==
  /\ LastEval(n_define) /\ last.err = "none"
  /\ LET n == JSString(Idx(last.x, 1)) IN
       /\ n \notin DOMAIN last.pre[last.env]
       /\ \E a \in Ancestors(last.pre, last.env) :
            /\ n \in DOMAIN last.pre[a]
            /\ Truthy(last.pre[a][n])
            /\ last.pre[a][n] # last.raw[last.env][n]

\* C3: (set! NAME v) evaluated in a scope whose chain binds NAME gives the
\* nearest binding of NAME the value v and changes nothing else; when no scope
\* binds NAME it fails and changes nothing.
C3_SetMutatesNearestBinding ==
  (LastEval(n_set) /\ Idx(last.x, 2) \in Literals) =>
    LET n == JSString(Idx(last.x, 1))
        o == Owner(last.pre, last.env, n)
    IN IF o # 0
       THEN /\ last.err = "none"
            /\ Get(last.raw[o], n) = Idx(last.x, 2)
            /\ \A e \in 1..Len(last.pre) : e # o => last.raw[e] = last.pre[e]
       ELSE /\ last.err = "SyntaxError"
            /\ last.raw = last.pre

\* C4: a call of a closure with literal arguments evaluates the body in a
\* fresh scope whose own bindings are exactly the parameters paired by
\* position with the arguments, whose parent is the scope the lambda was
\* evaluated in; neither the caller's nor the captured scope gains a binding
\* of a parameter.
C4_CallBindsParametersInFreshScope ==
  LET op == _eval(Idx(last.x, 0), last.env, last.pre, 0)
      args == Tail(last.x[2])
  IN
  (/\ last.op = "eval" /\ Tag(last.x) = "list" /\ Length(last.x) > 0
   /\ op.err = "none" /\ Tag(op.val) = "closure"
   /\ \A i \in 1..Len(args) : args[i] \in Literals) =>
    LET params == op.val[2][1][2]
        names == {params[i][2] : i \in 1..Len(params)}
        captured == op.val[2][3]
        k == Len(args) + 3
    IN /\ Len(last.log) >= k
       /\ last.log[k][1] = op.val[2][2]
       /\ last.log[k][2] > Len(last.pre)
       /\ DOMAIN last.log[k][3] = names \cup {n_parent}
       /\ \A i \in 1..Len(params) : last.log[k][3][params[i][2]] = Arg(args, i)
       /\ last.log[k][3][n_parent] = EnvRef(captured)
       /\ \A e \in {last.env, captured}, p \in names :
            p \in DOMAIN last.raw[e] => p \in DOMAIN last.pre[e]

\* C13: (set! NAME EXPR) evaluates EXPR first and then locates the binding
\* of NAME: the scope it mutates is the one find returns in the state EXPR
\* left, and when find fails there the effects of EXPR are in place.
C13_SetEvaluatesBeforeLocating ==
  LastEval(n_set) =>
    LET n == JSString(Idx(last.x, 1))
        r == _eval(Idx(last.x, 2), last.env, last.pre, 0)
        f == find(r.store, last.env, n)
    IN r.err = "none" =>
         IF f.err = "none"
         THEN /\ last.err = "none"
              /\ last.raw = [r.store EXCEPT ![f.env] = Put(@, n, r.val)]
         ELSE /\ last.err = f.err
              /\ last.raw = r.store

\* The scopes met walking the _parent links from e, e included.
RECURSIVE Walk(_, _, _)
Walk(st, e, seen) ==
  LET p == Get(st[e], n_parent) IN
  IF Tag(p) = "env" /\ p[2] \notin seen \cup {e}
  THEN Walk(st, p[2], seen \cup {e}) ELSE seen \cup {e}

\* The walk from e ends at a scope without a parent, never at a scope met
\* before or at a value that is no scope.
EndsAtRoot(st, e) ==
  \E r \in Walk(st, e, {}) :
    /\ IsUndef(Get(st[r], n_parent))
    /\ \A a \in Walk(st, e, {}) \ {r} : Tag(Get(st[a], n_parent)) = "env"

\* C14: no define, set!, insert or closure call changes the parent link of a
\* scope: every scope keeps the parent it was created with, the root keeps
\* none, and the chain find walks from any scope is finite and acyclic.
C14_ParentLinkIsFixed ==
  /\ last.op \in {"eval", "insert"} =>
       \A e \in 1..Len(last.pre) :
         Get(last.raw[e], n_parent) = Get(last.pre[e], n_parent)
  /\ IsUndef(Get(store[1], n_parent))
  /\ \A e \in 1..Len(store) : EndsAtRoot(store, e)

(* --------------------- properties of the special forms ---------------- *)
\* What (let ((n1 e1) ...) BODY) is to yield, for the let forms drawn.
LetValue(x) == IF Idx(x, 2) = Sym(n_x) THEN Num(1) ELSE Num(12)

LetNames(x) == {Idx(Idx(Idx(x, 1), i), 0)[2] : i \in 0..(Length(Idx(x, 1)) - 1)}

\* C5: a let form evaluated in an environment that holds the primitives
\* returns the value of its body under the bindings it lists, and leaves the
\* environment without a binding of the names it lists.
C5_LetYieldsBodyValue ==
  (/\ last.op = "eval" /\ last.x \in LetForms
   /\ Owner(last.pre, last.env, n_plus) # 0) =>
    /\ last.err = "none"
    /\ last.val = LetValue(last.x)
    /\ \A n \in LetNames(last.x) :
         n \in DOMAIN last.raw[last.env] => n \in DOMAIN last.pre[last.env]

\* C6: an `if` form whose number of operands is not three fails with
\* SyntaxError, and no operand of it is evaluated.
C6_IfRequiresExactlyThreeOperands ==
  (LastEval(n_if) /\ Length(last.x) # 4) =>
    /\ last.err = "SyntaxError"
    /\ Len(last.log) = 1
    /\ last.raw = last.pre

\* C7: a cond form whose tests are literals, one of them true, evaluates the
\* tests in order up to the first true one and no further, and returns the
\* value of evaluating the consequent of that clause once in the current
\* environment.
C7_CondYieldsValueOfFirstTrueConseq ==
  LET n == Length(last.x) - 1
      T(i) == Idx(Idx(last.x, i), 0)
      k == Min({i \in 1..n : Truthy(T(i))})
      c == _eval(Idx(Idx(last.x, k), 1), last.env, last.pre, 0)
  IN (/\ LastEval(n_cond)
      /\ \A i \in 1..n : T(i) \in Literals
      /\ \E i \in 1..n : Truthy(T(i))) =>
       /\ last.err = c.err
       /\ last.val = c.val
       /\ Len(last.log) = 1 + k + Len(c.log)
       /\ \A i \in 1..k : last.log[1 + i][1] = T(i)
       /\ SubSeq(last.log, k + 2, Len(last.log)) = c.log

\* C8: a cond form with the symbol else as the test of a clause that is not
\* its last fails with SyntaxError.
C8_ElseBeforeLastClauseIsRejected ==
  (/\ LastEval(n_cond)
   /\ \E i \in 1..(Length(last.x) - 2) : Idx(Idx(last.x, i), 0) = Sym(n_else)) =>
    last.err = "SyntaxError"

(* ------------------------ properties of the reader -------------------- *)
\* The open parentheses not yet closed after the first i tokens.
RECURSIVE DepthAt(_, _)
DepthAt(toks, i) ==
  IF i = 0 THEN 0
  ELSE DepthAt(toks, i - 1) + (IF toks[i] = Sym(<<"(">>) THEN 1
                               ELSE IF toks[i] = Sym(<<")">>) THEN -1 ELSE 0)

\* The number of tokens of the complete balanced form toks begins with, 0
\* when it begins with none.
FirstFormLen(toks) ==
  IF toks = <<>> \/ toks[1] = Sym(<<")">>) THEN 0
  ELSE LET K == {k \in 1..Len(toks) : DepthAt(toks, k) = 0} IN
       IF K = {} THEN 0 ELSE Min(K)

TokenSeq(t) == IF Tag(t) = "list" THEN t[2] ELSE <<>>

Open == <<"open", 0>>
Close == <<"close", 0>>

\* A tree written back as the sequence of its parentheses and leaves.
RECURSIVE Flatten(_)
RECURSIVE FlattenAll(_)
Flatten(v) ==
  IF Tag(v) = "list" THEN <<Open>> \o FlattenAll(v[2]) \o <<Close>> ELSE <<v>>
FlattenAll(vs) ==
  IF vs = <<>> THEN <<>> ELSE Flatten(Head(vs)) \o FlattenAll(Tail(vs))

\* The parentheses and leaves a token sequence announces.
Announced(toks) ==
  [i \in 1..Len(toks) |-> IF toks[i] = Sym(<<"(">>) THEN Open
                          ELSE IF toks[i] = Sym(<<")">>) THEN Close
                          ELSE atom(toks[i][2])]

\* C9: parse of a text whose tokens do not begin with a complete balanced
\* form (none at all, an unterminated list, a leading closing parenthesis)
\* fails with SyntaxError.
C9_MalformedTextIsSyntaxError ==
  (reading.phase = "parsed" /\ FirstFormLen(TokenSeq(tokens)) = 0) =>
    reading.res.err = "SyntaxError"

\* C10: on a token sequence that begins with a complete balanced form the
\* reader returns the tree whose nesting and order are those of that form,
\* leaves exactly the tokens after the form, and returns what it returns for
\* the form alone.
C10_ReaderReadsExactlyFirstForm ==
  LET toks == TokenSeq(tokens)
      k == FirstFormLen(toks)
  IN (reading.phase \in {"parsed", "read"} /\ k > 0) =>
       /\ reading.res.err = "none"
       /\ reading.res.rest = SubSeq(toks, k + 1, Len(toks))
       /\ Flatten(reading.res.val) = Announced(SubSeq(toks, 1, k))
       /\ reading.res.val = nested_repr_seq(SubSeq(toks, 1, k)).val

\* A form with a list and another sub-form in it, read off an array that
\* holds more tokens after it.
C10_Witness ==
  /\ reading.phase = "read" /\ reading.res.err = "none"
  /\ reading.res.rest # <<>>
  /\ Tag(reading.res.val) = "list" /\ Len(reading.res.val[2]) >= 2
  /\ \E i \in 1..Len(reading.res.val[2]) : Tag(reading.res.val[2][i]) = "list"
  /\ \E i \in 1..Len(reading.res.val[2]) : Tag(reading.res.val[2][i]) # "list"

(* ----------------------- properties of tokenize ----------------------- *)
\* The tokens of a text read in one pass: a `;` opens a comment that the next
\* "\n" closes, a parenthesis is a token of its own, and the other characters
\* gather into maximal runs that whitespace, parentheses and comments end.
RECURSIVE RunsOf(_, _, _)
RunsOf(s, cur, inComment) ==
  LET flush == IF cur = <<>> THEN <<>> ELSE <<Sym(cur)>> IN
  IF s = <<>> THEN flush
  ELSE IF inComment THEN RunsOf(Tail(s), <<>>, Head(s) # "\n")
  ELSE IF Head(s) = ";" THEN flush \o RunsOf(Tail(s), <<>>, TRUE)
  ELSE IF Head(s) \in Whitespace THEN flush \o RunsOf(Tail(s), <<>>, FALSE)
  ELSE IF Head(s) \in {"(", ")"}
       THEN flush \o <<Sym(<<Head(s)>>)>> \o RunsOf(Tail(s), <<>>, FALSE)
  ELSE RunsOf(Tail(s), Append(cur, Head(s)), FALSE)

\* C11: tokenize returns, in order, the maximal non-whitespace runs of the
\* text once each parenthesis stands alone and each comment, from a `;` to
\* the next newline or to the end of the text, is removed; a comment takes
\* nothing from the lines after it, and the result is null when no token
\* remains.
C11_TokenizeYieldsRunsOutsideComments ==
  reading.phase = "parsed" =>
    LET runs == RunsOf(text, <<>>, FALSE) IN
    tokens = IF runs = <<>> THEN Null ELSE List(runs)

(* ---------------------- properties of the round trip ------------------ *)
\* C12: parsing the text lisp_string gives for an expression built of
\* integers, booleans, string literals, symbols and lists of them yields an
\* expression structurally equal to it.
C12_ParseInvertsLispString ==
  (last.op = "lisp_string" /\ reading.phase = "parsed") =>
    /\ reading.res.err = "none"
    /\ reading.res.val = last.x

\* Every primitive a program of the model applies is one the model computes.
NothingUnmodelled == last.err # "Unmodelled"

====
